---- MODULE Spec2Model ----
(***************************************************************************)
(* Model of the sqlite flow store proof of concept:                        *)
(*   dbview.py    chunk codec (serialize / deserialize), transactional     *)
(*                store, the event hooks of the SerializeSQLite addon      *)
(*   dbviewff.py  filter grammar, AST -> SQL WHERE fragment lowering and   *)
(*                its evaluation against the chunk table                   *)
(***************************************************************************)
EXTENDS Integers, Sequences, FiniteSets, TLC

VARIABLES
    chunk,   \* the committed rows of table chunk(mid, kind, data): what the file
             \* holds and what a second connection reads
    db,      \* the connection of the program that writes: which program it is and
             \* where it stands, the transaction it has left open, the rows it sees
    last,    \* the last store call: the tables before it, its rows, its outcome
    put,     \* for every (mid, kind): the payload of the most recent committed write
    event,   \* the event hook call in progress or just ended: the table it found,
             \* the data it was given, the store calls it has made, what it raised
    codec,   \* the codec exercise: a flow, its chunks, the decoding of an ordering
    flt      \* the last filter evaluation: text, parse result, query result

vars == <<chunk, db, last, put, event, codec, flt>>

(***************************************************************************)
(* Python values. bytes and str are distinct types; JSON carries only str. *)
(***************************************************************************)
None == [t |-> "none"]
Bytes(x) == [t |-> "bytes", v |-> x]
Str(x) == [t |-> "str", v |-> x]
PyInt(x) == [t |-> "int", v |-> x]

\* a byte string that is not valid UTF-8
BadUtf8 == "xff"

Ok(x) == [ok |-> TRUE, val |-> x]
Raise(e) == [ok |-> FALSE, err |-> e]

\* bytes.decode(): the text of a UTF-8 byte string, UnicodeDecodeError otherwise
BytesDecode(b) ==
    IF b.v = BadUtf8 THEN Raise("UnicodeDecodeError") ELSE Ok(Str(b.v))

\* BytesDecoder.default: bytes become str, anything else falls through to None
BytesDecoderDefault(o) ==
    IF o.t = "bytes" THEN BytesDecode(o) ELSE Ok(None)

\* str.encode(); bytes has no encode method
StrEncode(s) ==
    IF s.t = "str" THEN Ok(Bytes(s.v)) ELSE Raise("AttributeError")

(***************************************************************************)
(* Flow snapshots, as the capture engine hands them to the hooks.          *)
(***************************************************************************)
FlowIds == {"f1", "f2"}
GoodHeaders == << <<Bytes("h"), Bytes("v")>> >>
BadHeaders == << <<Bytes("h"), Bytes(BadUtf8)>> >>

Kinds == {"http_flow", "client_conn", "server_conn", "request_content",
          "response_content"}

Response(code) ==
    [t |-> "dict", status_code |-> code, headers |-> GoodHeaders,
     content |-> Bytes("resp")]

\* HTTPFlow.get_state() of a snapshot
HTTPState(id, marked, hdrs, resp) ==
    [id |-> Str(id),
     type |-> Str("http"),
     marked |-> Str(marked),
     request |-> [t |-> "dict", headers |-> hdrs, content |-> Bytes("req")],
     response |-> resp,
     client_conn |-> [t |-> "dict", id |-> Str("cc"), alpn |-> Bytes("h2")],
     server_conn |-> [t |-> "dict", id |-> Str("sc"),
                      certificate_list |-> <<Bytes("cert")>>]]

HTTPFlow(id, marked, hdrs, resp) ==
    [id |-> id, cls |-> "HTTPFlow", state |-> HTTPState(id, marked, hdrs, resp)]

\* the snapshots of one flow: request only, answered, marked, with a header
\* value that is not UTF-8
Snapshots(id) ==
    {HTTPFlow(id, "", GoodHeaders, None),
     HTTPFlow(id, "", GoodHeaders, Response(200)),
     HTTPFlow(id, "", GoodHeaders, Response(404)),
     HTTPFlow(id, "foo", GoodHeaders, Response(200)),
     HTTPFlow(id, "foo", GoodHeaders, None),
     HTTPFlow(id, "", BadHeaders, Response(200))}

HTTPFlows == UNION {Snapshots(id) : id \in FlowIds}

\* a flow of another type (tcp, dns, ...)
OtherFlows == {[id |-> id, cls |-> "TCPFlow", state |-> [id |-> Str(id)]] : id \in FlowIds}

Flows == HTTPFlows \cup OtherFlows

\* the snapshots delivered in lists
BatchFlows ==
    {HTTPFlow(id, "", h, Response(200)) : id \in FlowIds, h \in {GoodHeaders, BadHeaders}}

(***************************************************************************)
(* json.dumps(..., cls=BytesDecoder) and json.loads. A JSON document is    *)
(* modelled by the value json.loads returns for it.                        *)
(***************************************************************************)
Json(x) == [t |-> "json", v |-> x]

\* what json.dumps(..., cls=BytesDecoder) writes for one value: bytes go
\* through BytesDecoder.default, everything else is written as it is
DumpsValue(v) == IF v.t = "bytes" THEN BytesDecoderDefault(v) ELSE Ok(v)

DumpsHeaders(h) ==
    IF \E i \in DOMAIN h : ~DumpsValue(h[i][1]).ok \/ ~DumpsValue(h[i][2]).ok
    THEN Raise("UnicodeDecodeError")
    ELSE Ok([i \in DOMAIN h |-> <<DumpsValue(h[i][1]).val, DumpsValue(h[i][2]).val>>])

DumpsCerts(c) ==
    IF \E i \in DOMAIN c : ~DumpsValue(c[i]).ok
    THEN Raise("UnicodeDecodeError")
    ELSE Ok([i \in DOMAIN c |-> DumpsValue(c[i]).val])

\* request / response after .pop("content")
DumpsMessage(m) ==
    IF m.t = "none" THEN Ok(None)
    ELSE IF ~DumpsHeaders(m.headers).ok THEN DumpsHeaders(m.headers)
    ELSE IF "status_code" \in DOMAIN m
         THEN Ok([t |-> "dict", status_code |-> m.status_code,
                  headers |-> DumpsHeaders(m.headers).val])
         ELSE Ok([t |-> "dict", headers |-> DumpsHeaders(m.headers).val])

\* the entries of a connection state that hold lists
ListFields == {"alpn_offers", "certificate_list"}

DumpsField(c, k) ==
    IF k = "t" THEN Ok(c[k])
    ELSE IF k \in ListFields THEN DumpsCerts(c[k])
    ELSE DumpsValue(c[k])

\* json.dumps(conn_state, cls=BytesDecoder)
DumpsDict(c) ==
    IF \E k \in DOMAIN c : ~DumpsField(c, k).ok THEN Raise("UnicodeDecodeError")
    ELSE Ok(Json([k \in DOMAIN c |-> DumpsField(c, k).val]))

DumpsClientConn(c) == DumpsDict(c)

DumpsServerConn(c) == DumpsDict(c)

\* the state left after the contents and the two connections were popped
DumpsHttpFlow(state) ==
    IF ~DumpsMessage(state.request).ok THEN DumpsMessage(state.request)
    ELSE IF ~DumpsMessage(state.response).ok THEN DumpsMessage(state.response)
    ELSE Ok(Json([id |-> state.id, type |-> state.type, marked |-> state.marked,
                  request |-> DumpsMessage(state.request).val,
                  response |-> DumpsMessage(state.response).val]))

JsonLoads(data) == data.v

(***************************************************************************)
(* serialize: a generator. It is modelled by the rows it yields before it  *)
(* either finishes or raises.                                              *)
(***************************************************************************)
Gen(rows, err) == [rows |-> rows, err |-> err]

\* the rows of a sequence of steps, each Ok(row) or Raise(e), up to the first Raise
RECURSIVE Yielded(_)
Yielded(steps) ==
    IF steps = <<>> THEN Gen(<<>>, "none")
    ELSE IF ~Head(steps).ok THEN Gen(<<>>, Head(steps).err)
    ELSE LET rest == Yielded(Tail(steps))
         IN  Gen(<<Head(steps).val>> \o rest.rows, rest.err)

Row(mid, kind, res) == IF res.ok THEN Ok(<<mid, kind, res.val>>) ELSE res

SerializeFlow(flow) ==
    IF flow.cls = "HTTPFlow"
    THEN LET state == flow.state
         IN  Yielded(
               <<Ok(<<flow.id, "request_content", state.request.content>>)>>
               \o (IF state.response.t # "none"
                   THEN <<Ok(<<flow.id, "response_content", state.response.content>>)>>
                   ELSE <<>>)
               \o <<Row(flow.id, "client_conn", DumpsClientConn(state.client_conn)),
                    Row(flow.id, "server_conn", DumpsServerConn(state.server_conn)),
                    Row(flow.id, "http_flow", DumpsHttpFlow(state))>>)
    ELSE Gen(<<>>, "none")  \* logged, nothing yielded

RECURSIVE serialize(_)
serialize(flows) ==
    IF flows = <<>> THEN Gen(<<>>, "none")
    ELSE LET first == SerializeFlow(Head(flows))
         IN  IF first.err # "none" THEN first
             ELSE LET rest == serialize(Tail(flows))
                  IN  Gen(first.rows \o rest.rows, rest.err)

(***************************************************************************)
(* deserialize: the chunks are merged, in the order given, into the state  *)
(* dict that is handed to HTTPFlow.from_state.                             *)
(***************************************************************************)
\* dict.update and dict[key] = value
DictUpdate(d, e) == [k \in DOMAIN d \cup DOMAIN e |-> IF k \in DOMAIN e THEN e[k] ELSE d[k]]
DictSet(d, key, value) == [k \in DOMAIN d \cup {key} |-> IF k = key THEN value ELSE d[k]]

\* [[k.encode(), v.encode()] for k, v in headers]
EncodeHeaders(h) ==
    IF \E i \in DOMAIN h : ~StrEncode(h[i][1]).ok \/ ~StrEncode(h[i][2]).ok
    THEN Raise("AttributeError")
    ELSE Ok([i \in DOMAIN h |-> <<StrEncode(h[i][1]).val, StrEncode(h[i][2]).val>>])

\* [cert.encode() for cert in certificate_list]
CertsLeftAsText(c) == Ok(c)
EncodeCerts(c) ==
    IF \E i \in DOMAIN c : ~StrEncode(c[i]).ok
    THEN Raise("AttributeError")
    ELSE Ok([i \in DOMAIN c |-> StrEncode(c[i]).val])

\* the re-expansion of the headers of state[key], after http_flow was merged
ExpandHeaders(state, key) ==
    IF "headers" \in DOMAIN state[key]
    THEN IF EncodeHeaders(state[key].headers).ok
         THEN Ok(DictSet(state, key,
                         DictSet(state[key], "headers", EncodeHeaders(state[key].headers).val)))
         ELSE EncodeHeaders(state[key].headers)
    ELSE Ok(state)

NoCls == "None"

\* one iteration of "for chunk in chunks": the state and cls after the chunk,
\* or the exception it raises
DeserializeChunk(acc, row) ==
    LET state == acc.state
        kind == row[2]
        data == row[3]
    IN  IF kind = "http_flow"
        THEN LET merged == DictUpdate(state, JsonLoads(data))
                 req == ExpandHeaders(merged, "request")
             IN  IF ~req.ok THEN req
                 ELSE IF req.val.response.t # "none"
                 THEN LET resp == ExpandHeaders(req.val, "response")
                      IN  IF ~resp.ok THEN resp
                          ELSE Ok([state |-> resp.val, cls |-> "HTTPFlow"])
                 ELSE Ok([state |-> req.val, cls |-> "HTTPFlow"])
        ELSE IF kind = "client_conn"
        THEN Ok([acc EXCEPT !.state = DictSet(state, "client_conn", JsonLoads(data))])
        ELSE IF kind = "server_conn"
        THEN LET conn == JsonLoads(data)
                 certs == EncodeCerts(conn.certificate_list)
             IN  IF ~certs.ok THEN certs
                 ELSE Ok([acc EXCEPT !.state =
                            DictSet(state, "server_conn",
                                    DictSet(conn, "certificate_list", certs.val))])
        ELSE IF kind = "request_content"
        THEN IF "request" \notin DOMAIN state THEN Raise("KeyError")
             ELSE Ok([acc EXCEPT !.state =
                        DictSet(state, "request", DictSet(state.request, "content", data))])
        ELSE IF kind = "response_content"
        THEN IF "response" \notin DOMAIN state THEN Raise("KeyError")
             ELSE IF state.response.t = "none" THEN Raise("TypeError")
             ELSE Ok([acc EXCEPT !.state =
                        DictSet(state, "response", DictSet(state.response, "content", data))])
        ELSE Ok(acc)

RECURSIVE DeserializeLoop(_, _)
DeserializeLoop(acc, chunks) ==
    IF chunks = <<>> THEN Ok(acc)
    ELSE LET step == DeserializeChunk(acc, Head(chunks))
         IN  IF ~step.ok THEN step ELSE DeserializeLoop(step.val, Tail(chunks))

\* deserialize(*chunks): the class and the state given to cls.from_state
deserialize(chunks) ==
    LET loop == DeserializeLoop([state |-> <<>>, cls |-> NoCls], chunks)
    IN  IF ~loop.ok THEN loop
        ELSE IF loop.val.cls = NoCls THEN Raise("AttributeError")
        ELSE Ok(loop.val)

(***************************************************************************)
(* Table chunk(mid, kind, data) and the store.                             *)
(***************************************************************************)
\* the unique key of table chunk
ChunkKey(r) == <<r.mid, r.kind>>

ChunkRow(row) == [mid |-> row[1], kind |-> row[2], data |-> row[3]]

\* INSERT OR REPLACE INTO chunk(mid, kind, data) VALUES (?, ?, ?)
InsertOnly(table, row) == table \cup {ChunkRow(row)}
InsertOrReplace(table, row) ==
    {r \in table : ChunkKey(r) # ChunkKey(ChunkRow(row))} \cup {ChunkRow(row)}

\* for row in rowgen: conn.execute(...)
RECURSIVE ExecuteRows(_, _)
ExecuteRows(table, rows) ==
    IF rows = <<>> THEN table
    ELSE ExecuteRows(InsertOrReplace(table, Head(rows)), Tail(rows))

\* the connection that store is given: committed is what the file holds, view
\* what the connection reads, its own uncommitted statements included
Connection(committed, view) == [committed |-> committed, view |-> view]

\* "with conn:" on exit: commit when the body finished, roll back when it raised
ConnExitKeepsWrites(committed, working, raised) == working
ConnExit(committed, working, raised) ==
    IF raised = "none" THEN working ELSE committed

\* the executes of one store call that the engine may fail: the first MaxFailRow
MaxFailRow == 2

\* store(conn, rowgen). failAt names the execute that the engine fails
\* (disk full, locked...), 0 when every execute succeeds. "with conn:" opens
\* no transaction of its own: the first execute does, unless one is open, and
\* the exit commits or rolls back whatever transaction is open.
store(conn, rowgen, failAt) ==
    LET execFails == failAt \in 1..Len(rowgen.rows)
        written == IF execFails THEN SubSeq(rowgen.rows, 1, failAt - 1)
                   ELSE rowgen.rows
        raised == IF execFails THEN "OperationalError" ELSE rowgen.err
    IN  [table |-> ConnExit(conn.committed, ExecuteRows(conn.view, written), raised),
         raised |-> raised,
         written |-> written]

(***************************************************************************)
(* SerializeSQLite._http_events, bound to request, response, update, error.*)
(* data is one flow or a list of flows.                                    *)
(***************************************************************************)
MaxBatch == 2

One(flow) == [isList |-> FALSE, flows |-> <<flow>>]
List(flows) == [isList |-> TRUE, flows |-> flows]

(***************************************************************************)
(* dbviewff.py: the filter AST. A filter text is modelled by its sequence  *)
(* of whitespace-separated tokens.                                         *)
(***************************************************************************)
FMarked == [op |-> "FMarked"]
FMarker(expr) == [op |-> "FMarker", expr |-> expr]
FHead(expr) == [op |-> "FHead", expr |-> expr]
FCode(num) == [op |-> "FCode", num |-> num]
FUrl(expr) == [op |-> "FUrl", expr |-> expr]
FAnd(lst) == [op |-> "FAnd", lst |-> lst]
FOr(lst) == [op |-> "FOr", lst |-> lst]
FNot(itm) == [op |-> "FNot", itm |-> itm]

\* Word(nums) and int(num)
NumOf == ("200" :> 200) @@ ("201" :> 201) @@ ("404" :> 404)

\* QuotedString: the text between the quotes of a quoted token
Quoted == ("\"foo\"" :> "foo")

\* the words that filters are written with here
Words == {"foo", "ee", "200", "201", "404", "!", "&", "|"} \cup DOMAIN Quoted
Flags == {"~marked", "~marker", "~h", "~c"}
UnknownFlags == {"~q"}
Tokens == Flags \cup {"(", ")"} \cup Words \cup UnknownFlags

EndOfText == "<end>"
Tok(toks, i) == IF i \in DOMAIN toks THEN toks[i] ELSE EndOfText

\* regex: CharsNotIn("()~'\"" + whitespace) | QuotedString. Every token is a
\* run of such characters or a quoted string, but for the parentheses and the
\* tokens that start with "~".
IsRegex(tok) == tok \notin Flags \cup UnknownFlags \cup {"(", ")", EndOfText}

\* the text the regex element hands to the parse action
RegexOf(tok) == IF tok \in DOMAIN Quoted THEN Quoted[tok] ELSE tok
IsNums(tok) == tok \in DOMAIN NumOf

NoMatch == [ok |-> FALSE]
Match(node, next) == [ok |-> TRUE, node |-> node, next |-> next]

\* atom = MatchFirst(parts): ~marked, ~h regex, ~marker regex, ~c nums, regex
Atom(toks, i) ==
    IF Tok(toks, i) = "~marked" THEN Match(FMarked, i + 1)
    ELSE IF Tok(toks, i) = "~h" /\ IsRegex(Tok(toks, i + 1))
    THEN Match(FHead(RegexOf(Tok(toks, i + 1))), i + 2)
    ELSE IF Tok(toks, i) = "~marker" /\ IsRegex(Tok(toks, i + 1))
    THEN Match(FMarker(RegexOf(Tok(toks, i + 1))), i + 2)
    ELSE IF Tok(toks, i) = "~c" /\ IsNums(Tok(toks, i + 1))
    THEN Match(FCode(NumOf[Tok(toks, i + 1)]), i + 2)
    ELSE IF IsRegex(Tok(toks, i)) THEN Match(FUrl(RegexOf(Tok(toks, i))), i + 1)
    ELSE NoMatch

\* pp.infixNotation(atom, [("!", 1, RIGHT), ("&", 2, LEFT), ("|", 2, LEFT)])
RECURSIVE NotLevel(_, _), AndLevel(_, _), OrLevel(_, _), AndMore(_, _, _), OrMore(_, _, _)

\* "(" expr ")"
Parenthesized(toks, e) ==
    IF e.ok /\ Tok(toks, e.next) = ")" THEN Match(e.node, e.next + 1) ELSE NoMatch

\* atom | "(" expr ")", a being what atom matched
OperandOf(toks, i, a) ==
    IF a.ok THEN a
    ELSE IF Tok(toks, i) = "(" THEN Parenthesized(toks, OrLevel(toks, i + 1))
    ELSE NoMatch

Operand(toks, i) == OperandOf(toks, i, Atom(toks, i))

\* "!" operand | operand, inner being what followed the "!"
NotOf(toks, i, inner) ==
    IF inner.ok THEN Match(FNot(inner.node), inner.next) ELSE Operand(toks, i)

NotLevel(toks, i) ==
    NotOf(toks, i, IF Tok(toks, i) = "!" THEN NotLevel(toks, i + 1) ELSE NoMatch)

\* OneOrMore("&" + operand), as far as it matches; e is what followed the "&"
AndMoreOf(toks, j, lst, e) ==
    IF e.ok THEN AndMore(toks, e.next, Append(lst, e.node))
    ELSE [lst |-> lst, next |-> j]

AndMore(toks, j, lst) ==
    AndMoreOf(toks, j, lst, IF Tok(toks, j) = "&" THEN NotLevel(toks, j + 1) ELSE NoMatch)

\* lambda x: FAnd(*x) on two or more operands, the operand itself otherwise
AndOf(first, more) ==
    IF Len(more.lst) > 1 THEN Match(FAnd(more.lst), more.next) ELSE first

AndFrom(toks, first) ==
    IF ~first.ok THEN NoMatch
    ELSE AndOf(first, AndMore(toks, first.next, <<first.node>>))

AndLevel(toks, i) == AndFrom(toks, NotLevel(toks, i))

OrMoreOf(toks, j, lst, e) ==
    IF e.ok THEN OrMore(toks, e.next, Append(lst, e.node))
    ELSE [lst |-> lst, next |-> j]

OrMore(toks, j, lst) ==
    OrMoreOf(toks, j, lst, IF Tok(toks, j) = "|" THEN AndLevel(toks, j + 1) ELSE NoMatch)

OrOf(first, more) ==
    IF Len(more.lst) > 1 THEN Match(FOr(more.lst), more.next) ELSE first

OrFrom(toks, first) ==
    IF ~first.ok THEN NoMatch
    ELSE OrOf(first, OrMore(toks, first.next, <<first.node>>))

OrLevel(toks, i) == OrFrom(toks, AndLevel(toks, i))

\* pp.OneOrMore(expr): the expressions matched from position i on
RECURSIVE OneOrMore(_, _, _)
OneOrMoreOf(toks, i, lst, e) ==
    IF e.ok THEN OneOrMore(toks, e.next, Append(lst, e.node))
    ELSE [lst |-> lst, next |-> i]

OneOrMore(toks, i, lst) == OneOrMoreOf(toks, i, lst, OrLevel(toks, i))

\* lambda x: FAnd(x) if len(x) != 1 else x[0]
TopOr(x) == IF Len(x) # 1 THEN FOr(x) ELSE x[1]
Top(x) == IF Len(x) # 1 THEN FAnd(x) ELSE x[1]

(***************************************************************************)
(* The sql methods. A fragment is the sequence of its pieces, every "?" a  *)
(* piece of its own.                                                       *)
(***************************************************************************)
Placeholder == "?"
FMarkedWhere == <<"kind='http_flow' and json_extract(data, '$.marked') is not ''">>
FMarkerWhere == <<"kind='http_flow' and search(", Placeholder,
                  ", json_extract(data, '$.marked'), 0)">>
FCodeWhere == <<"kind='http_flow' and json_extract(data, '$.response.status_code') = ",
                Placeholder>>
FHeadWhere == <<"kind='http_flow' and mid in (SELECT mid from header where search(",
                Placeholder, ", kvstr, 0))">>

Compiled(expr, bindings) == Ok([expr |-> expr, bindings |-> bindings])

sql_int_unbound(where, num) == Compiled(where, <<>>)
sql_int(where, num) == Compiled(where, <<PyInt(num)>>)

sql_unary(where) == Compiled(where, <<>>)

sql_regex(where, pat) == Compiled(where, <<Str(pat)>>)

\* " ( " + sep.join(exprs) + " ) "
RECURSIVE Join(_, _)
Join(sep, exprs) ==
    IF exprs = <<>> THEN <<>>
    ELSE IF Len(exprs) = 1 THEN exprs[1]
    ELSE exprs[1] \o <<sep>> \o Join(sep, Tail(exprs))

RECURSIVE sql(_), concat_expr_binding(_), concat_binding_reversed(_)

ConcatReversed(item, rest) ==
    IF ~item.ok THEN item
    ELSE IF ~rest.ok THEN rest
    ELSE Ok([exprs |-> <<item.val.expr>> \o rest.val.exprs,
             bindings |-> rest.val.bindings \o item.val.bindings])

concat_binding_reversed(items) ==
    IF items = <<>> THEN Ok([exprs |-> <<>>, bindings |-> <<>>])
    ELSE ConcatReversed(sql(Head(items)), concat_binding_reversed(Tail(items)))

\* exprs.append(expr); bindings += binding
Concat(item, rest) ==
    IF ~item.ok THEN item
    ELSE IF ~rest.ok THEN rest
    ELSE Ok([exprs |-> <<item.val.expr>> \o rest.val.exprs,
             bindings |-> item.val.bindings \o rest.val.bindings])

\* _concat_expr_binding: the children's fragments, their bindings concatenated
concat_expr_binding(items) ==
    IF items = <<>> THEN Ok([exprs |-> <<>>, bindings |-> <<>>])
    ELSE Concat(sql(Head(items)), concat_expr_binding(Tail(items)))

Joined(sep, c) ==
    IF ~c.ok THEN c
    ELSE Compiled(<<" ( ">> \o Join(sep, c.val.exprs) \o <<" ) ">>, c.val.bindings)

sql_and(lst) == Joined(" ) AND ( ", concat_expr_binding(lst))

sql_or(lst) == Joined(" ) OR ( ", concat_expr_binding(lst))

Negated(c) ==
    IF ~c.ok THEN c
    ELSE Compiled(<<"NOT ( ">> \o c.val.expr \o <<" ) ">>, c.val.bindings)

sql_not(itm) == Negated(sql(itm))

\* node.sql(): the method assigned to the node's class; FUrl has none
sql(node) ==
    CASE node.op = "FMarked" -> sql_unary(FMarkedWhere)
      [] node.op = "FMarker" -> sql_regex(FMarkerWhere, node.expr)
      [] node.op = "FCode" -> sql_int(FCodeWhere, node.num)
      [] node.op = "FHead" -> sql_regex(FHeadWhere, node.expr)
      [] node.op = "FAnd" -> sql_and(node.lst)
      [] node.op = "FOr" -> sql_or(node.lst)
      [] node.op = "FNot" -> sql_not(node.itm)
      [] OTHER -> Raise("AttributeError")

\* the parse action's result, then parseAll's demand for the end of the text
ParseAction(toks, x, ast, compiled) ==
    IF ~compiled.ok THEN [res |-> compiled, ast |-> ast]
    ELSE IF x.next # Len(toks) + 1 THEN [res |-> Raise("ParseException"), ast |-> ast]
    ELSE [res |-> compiled, ast |-> ast]

Parsed(toks, x, ast) == ParseAction(toks, x, ast, sql(ast))

ParseResults(toks, x) ==
    IF x.lst = <<>> THEN [res |-> Raise("ParseException"), ast |-> None]
    ELSE Parsed(toks, x, Top(x.lst))

\* bnf.parseString(flt, parseAll=True)[0]: the parse action compiles what
\* OneOrMore matched, then the end of the text is required
parseString(toks) == ParseResults(toks, OneOrMore(toks, 1, <<>>))

(***************************************************************************)
(* Running a compiled fragment: SELECT ... FROM chunk WHERE <expr> with    *)
(* the bindings, row by row, in SQL's three-valued logic.                  *)
(***************************************************************************)
SqlTrue == "true"
SqlFalse == "false"
SqlNull == "null"

SqlBool(b) == IF b THEN SqlTrue ELSE SqlFalse

SqlAnd(x, y) ==
    IF x = SqlFalse \/ y = SqlFalse THEN SqlFalse
    ELSE IF x = SqlNull \/ y = SqlNull THEN SqlNull
    ELSE SqlTrue

SqlOr(x, y) ==
    IF x = SqlTrue \/ y = SqlTrue THEN SqlTrue
    ELSE IF x = SqlNull \/ y = SqlNull THEN SqlNull
    ELSE SqlFalse

SqlNot(x) ==
    IF x = SqlNull THEN SqlNull ELSE IF x = SqlTrue THEN SqlFalse ELSE SqlTrue

\* a text as the list of its literal parts: "" has none, "h=v" has h, = and v
TextParts(str) == IF str.v = "" THEN <<>> ELSE <<str.v>>
KvStr(kv) == <<kv[1].v, "=", kv[2].v>>

\* _sql_re_search: bool(re.search(expr, string)). The patterns of the model
\* are literals, found when they are a part of the text, and "|", whose
\* empty alternative is found in every text.
re_search(expr, parts) ==
    IF expr = "|" THEN TRUE ELSE \E i \in DOMAIN parts : parts[i] = expr

\* view header(mid, kvstr): one row per header of the request and of the
\* response of a stored http_flow document
Header(table) ==
    UNION {LET doc == JsonLoads(r.data)
               hdrs == doc.request.headers
                       \o (IF doc.response.t = "none" THEN <<>> ELSE doc.response.headers)
           IN  {[mid |-> r.mid, kvstr |-> KvStr(hdrs[i])] : i \in DOMAIN hdrs} :
           r \in {x \in table : x.kind = "http_flow"}}

\* the clauses monkeypatched onto the filter classes, on one row of chunk.
\* "kind='http_flow' and ..." is false on the rows of every other kind.
WhereMarked(row) ==
    IF row.kind # "http_flow" THEN SqlFalse
    ELSE SqlBool(JsonLoads(row.data).marked.v # "")

WhereMarker(row, expr) ==
    IF row.kind # "http_flow" THEN SqlFalse
    ELSE SqlBool(re_search(expr, TextParts(JsonLoads(row.data).marked)))

\* json_extract of a path through a JSON null is NULL, and NULL = ? is NULL
WhereCode(row, num) ==
    IF row.kind # "http_flow" THEN SqlFalse
    ELSE IF JsonLoads(row.data).response.t = "none" THEN SqlNull
    ELSE SqlBool(JsonLoads(row.data).response.status_code = num)

WhereHead(row, expr, table) ==
    IF row.kind # "http_flow" THEN SqlFalse
    ELSE SqlBool(\E h \in Header(table) : h.mid = row.mid /\ re_search(expr, h.kvstr))

\* The value of the fragment that starts at piece i, for one row; b is the
\* index of the next binding (placeholders are bound in textual order).
RECURSIVE SqlEval(_, _, _, _, _, _), SqlGroup(_, _, _, _, _, _, _)
SqlEval(expr, i, bindings, b, row, table) ==
    IF expr[i] = FMarkedWhere[1]
    THEN [val |-> WhereMarked(row), next |-> i + 1, b |-> b]
    ELSE IF expr[i] = FMarkerWhere[1]
    THEN [val |-> WhereMarker(row, bindings[b].v), next |-> i + 3, b |-> b + 1]
    ELSE IF expr[i] = FCodeWhere[1]
    THEN [val |-> WhereCode(row, bindings[b].v), next |-> i + 2, b |-> b + 1]
    ELSE IF expr[i] = FHeadWhere[1]
    THEN [val |-> WhereHead(row, bindings[b].v, table), next |-> i + 3, b |-> b + 1]
    ELSE IF expr[i] = "NOT ( "
    THEN LET inner == SqlEval(expr, i + 1, bindings, b, row, table)
         IN  [val |-> SqlNot(inner.val), next |-> inner.next + 1, b |-> inner.b]
    ELSE \* " ( " ... " ) AND ( " ... " ) "
         LET first == SqlEval(expr, i + 1, bindings, b, row, table)
         IN  SqlGroup(expr, first.next, bindings, first.b, row, table, first.val)

SqlGroup(expr, j, bindings, b, row, table, val) ==
    IF expr[j] = " ) AND ( "
    THEN LET item == SqlEval(expr, j + 1, bindings, b, row, table)
         IN  SqlGroup(expr, item.next, bindings, item.b, row, table, SqlAnd(val, item.val))
    ELSE IF expr[j] = " ) OR ( "
    THEN LET item == SqlEval(expr, j + 1, bindings, b, row, table)
         IN  SqlGroup(expr, item.next, bindings, item.b, row, table, SqlOr(val, item.val))
    ELSE [val |-> val, next |-> j + 1, b |-> b]

\* the rows of chunk the WHERE clause selects when the statement completes
Selected(compiled, table) ==
    {r \in table : SqlEval(compiled.expr, 1, compiled.bindings, 1, r, table).val = SqlTrue}

\* The terms of the WHERE clause compiled from node, as the engine sees them:
\* the operands of nested ANDs side by side, every clause of a flag split at
\* its "and" into the test of kind and the test of the document.
RECURSIVE WhereTerms(_), TermsOf(_), ExtractsJson(_), SomeExtractsJson(_)
SomeExtractsJson(lst) ==
    IF lst = <<>> THEN FALSE
    ELSE ExtractsJson(Head(lst)) \/ SomeExtractsJson(Tail(lst))

\* the fragment compiled from node calls json_extract(data, ...)
ExtractsJson(node) ==
    CASE node.op \in {"FMarked", "FMarker", "FCode"} -> TRUE
      [] node.op \in {"FAnd", "FOr"} -> SomeExtractsJson(node.lst)
      [] node.op = "FNot" -> ExtractsJson(node.itm)
      [] OTHER -> FALSE

TermsOf(lst) ==
    IF lst = <<>> THEN <<>> ELSE WhereTerms(Head(lst)) \o TermsOf(Tail(lst))

WhereTerms(node) ==
    CASE node.op \in {"FMarked", "FMarker", "FCode"} -> <<"kind", "json">>
      [] node.op = "FHead" -> <<"kind", "subquery">>
      [] node.op = "FAnd" -> TermsOf(node.lst)
      [] OTHER -> <<IF ExtractsJson(node) THEN "compound json" ELSE "compound">>

\* json_extract raises 'malformed JSON' on a row whose data is a BLOB (the
\* request_content and response_content rows), and SQL fixes no order for the
\* terms of a conjunction. With the unique key of chunk as the only index
\* the engine reads kind='http_flow' of a conjunction as a constant: where the
\* test is written twice, or after a compound term that extracts JSON, and no
\* term is a subquery on mid, json_extract meets rows of every kind. With an
\* index on kind it meets http_flow rows only.
MayRaiseMalformed(terms, table) ==
    /\ \E r \in table : r.data.t = "bytes"
    /\ \A i \in DOMAIN terms : terms[i] # "subquery"
    /\ \/ Cardinality({i \in DOMAIN terms : terms[i] = "kind"}) > 1
       \/ \E i, j \in DOMAIN terms :
             i < j /\ terms[i] = "compound json" /\ terms[j] = "kind"

\* conn.execute("SELECT count(*) FROM chunk WHERE " + expr, bindings): the
\* outcomes the engine can produce, the count or OperationalError
execute(parsed, table) ==
    {Ok(Cardinality(Selected(parsed.res.val, table)))}
    \cup (IF MayRaiseMalformed(WhereTerms(parsed.ast), table)
          THEN {Raise("OperationalError")} ELSE {})

(***************************************************************************)
(* State machine of the store: the capture engine delivers events to the   *)
(* addon, or the script of dbview.py runs its benchmark, on the dbview.db  *)
(* found at start.                                                         *)
(***************************************************************************)
RECURSIVE SeqsUpTo(_, _)
SeqsUpTo(S, n) ==
    IF n = 0 THEN {<<>>}
    ELSE LET shorter == SeqsUpTo(S, n - 1)
         IN  shorter \cup {Append(q, x) : q \in shorter, x \in S}

EventData ==
    {One(f) : f \in Flows} \cup {List(fs) : fs \in SeqsUpTo(BatchFlows, MaxBatch)}

\* the execute of a store call that the engine fails, 0 for none
FailAts == 0..MaxFailRow

\* what is remembered of a store call: the committed table and the table the
\* connection saw before it, the rows its generator yielded, what it raised
NoCall == [pre |-> {}, view |-> {}, raised |-> "none", rows |-> <<>>]

\* the payload most recently committed for every key, after rows were committed
PutAfter(p, rows) ==
    LET keys == {<<rows[i][1], rows[i][2]>> : i \in DOMAIN rows}
        lastAt(k) == CHOOSE i \in DOMAIN rows :
                        /\ <<rows[i][1], rows[i][2]>> = k
                        /\ \A j \in DOMAIN rows : <<rows[j][1], rows[j][2]>> = k => j <= i
    IN  [k \in DOMAIN p \cup keys |->
            IF k \in keys THEN rows[lastAt(k)][3] ELSE p[k]]

\* the payloads of a table
Puts(table) ==
    [k \in {<<r.mid, r.kind>> : r \in table} |->
        (CHOOSE r \in table : <<r.mid, r.kind>> = k).data]

\* an event hook call: n counts the calls begun, pre is the committed table the
\* call found, stores the store calls it has made, raised what it let through
Event(pc, n, pre, data, stores, raised) ==
    [pc |-> pc, n |-> n, pre |-> pre, data |-> data, stores |-> stores,
     raised |-> raised]
NoEvent == Event("idle", 0, {}, List(<<>>), 0, "none")

\* the connection of a program: no transaction open, no flow stored yet
Db(run) == [run |-> run, intxn |-> FALSE, view |-> {}, flow |-> None]

\* the rows the connection reads: its open transaction's, or the committed ones
View(d, table) == IF d.intxn THEN d.view ELSE table

\* commit or rollback: no transaction is open afterwards
Closed(d) == [d EXCEPT !.intxn = FALSE, !.view = {}]

NotRun == Raise("not run")
CodecAt(pc, flow, gen, chunks, res) ==
    [pc |-> pc, flow |-> flow, gen |-> gen, chunks |-> chunks, res |-> res]
NoCodec == CodecAt("idle", None, Gen(<<>>, "none"), <<>>, NotRun)
FilterAt(pc, text, parsed, out) ==
    [pc |-> pc, text |-> text, res |-> parsed.res, ast |-> parsed.ast, out |-> out]
NoFilter == FilterAt("idle", <<>>, [res |-> NotRun, ast |-> None], NotRun)

\* the tables that n events, each storing one flow, leave behind
RECURSIVE StoresAfter(_)
StoresAfter(n) ==
    IF n = 0 THEN {{}}
    ELSE LET before == StoresAfter(n - 1)
         IN  before \cup {store(Connection(t, t), serialize(<<f>>), 0).table :
                             t \in before, f \in Flows}

\* the flows that earlier runs may have left in dbview.db
MaxBefore == 1
Found == StoresAfter(MaxBefore)

\* connection.executescript(SCHEMA) on the file found: the rows of chunk stay
executescript(table) == table

\* SerializeSQLite(): connect to dbview.db, run the schema script
Opened(run, tables) ==
    /\ chunk \in {executescript(t) : t \in tables}
    /\ db = Db(run)
    /\ last = [NoCall EXCEPT !.pre = chunk, !.view = chunk]
    /\ put = Puts(chunk)
    /\ event = [NoEvent EXCEPT !.pre = chunk]
    /\ codec = NoCodec
    /\ flt = NoFilter

\* the addon loaded by the capture engine, or the script run on its own
Init == \E run \in {"addon", "script"} : Opened(run, Found)

\* a store call on the connection has returned or raised: what is committed,
\* what is kept of the call. A DELETE left uncommitted is committed or rolled
\* back with the call.
Committed(view, gen, res) ==
    /\ chunk' = res.table
    /\ last' = [pre |-> chunk, view |-> view, raised |-> res.raised, rows |-> gen.rows]
    /\ put' = IF res.raised = "none"
              THEN PutAfter(IF db.intxn THEN <<>> ELSE put, res.written)
              ELSE put

StoreRows(view, gen, failAt) ==
    Committed(view, gen, store(Connection(chunk, view), gen, failAt))

\* store(connection, gen)
StoreOn(gen, failAt) == StoreRows(View(db, chunk), gen, failAt)

\* the hook calls of one behaviour
MaxCalls == 3

\* nothing in _http_events catches what store raises: it ends the loop and
\* reaches the caller of the hook
Swallowed(raised) == FALSE
Propagates(raised) == raised # "none"

\* the call after one more store call, which raised or did not
AfterStore(ev, raised) ==
    Event(IF Propagates(raised) \/ ev.stores + 1 = Len(ev.data.flows)
          THEN "done" ELSE "storing",
          ev.n, ev.pre, ev.data, ev.stores + 1,
          IF Propagates(raised) THEN raised ELSE "none")

\* store(self.connection, serialize(f)) for the next flow of the call: one
\* transaction, committed or rolled back before the next begins
StoreFlow(ev, failAt) ==
    /\ StoreOn(serialize(<<ev.data.flows[ev.stores + 1]>>), failAt)
    /\ db' = Closed(db)
    /\ event' = AfterStore(ev, last'.raised)
    /\ UNCHANGED <<codec, flt>>

\* request / response / update / error hook called with data: it returns at
\* once on an empty list, and makes its first store call otherwise
HttpEvents(data, failAt) ==
    /\ db.run = "addon"
    /\ event.pc # "storing"
    /\ event.n < MaxCalls
    /\ IF data.flows = <<>>
       THEN /\ event' = Event("done", event.n + 1, chunk, data, 0, "none")
            /\ UNCHANGED <<chunk, db, last, put, codec, flt>>
       ELSE StoreFlow(Event("storing", event.n + 1, chunk, data, 0, "none"), failAt)

\* "for f in data": the next store call of the hook call in progress
NextFlow(failAt) ==
    /\ event.pc = "storing"
    /\ StoreFlow(event, failAt)

(***************************************************************************)
(* The script of dbview.py: bulk_store of testflows, DELETE FROM chunk,    *)
(* store of the chunks of the last of testflows over and over, DELETE FROM *)
(* chunk, bulk_store of testflows under the profiler. An exception ends it.*)
(***************************************************************************)
\* the flows read from thedrive.mitm
TestFlows == BatchFlows \cup OtherFlows

BulkStored(flow, gen, failAt) ==
    \* under the profiler the flows are those that bulk_store has serialized before
    /\ db.run \in {"emptied", "profile"} => gen.err = "none"
    /\ StoreOn(gen, failAt)
    /\ db' = [run |-> IF last'.raised # "none" THEN "ended"
                      ELSE IF db.run \in {"script", "bulk"} THEN "bulk"
                      ELSE "profile",
              intxn |-> FALSE, view |-> {}, flow |-> flow]
    /\ UNCHANGED <<event, codec, flt>>

\* bulk_store: store(db.connection, serialize(f)) for the next of testflows
BulkStore(flow, failAt) ==
    /\ db.run \in {"script", "bulk", "emptied", "profile"}
    /\ BulkStored(flow, serialize(<<flow>>), failAt)

\* db.connection.execute("DELETE FROM chunk;"): the statement opens a
\* transaction and nothing commits it; the connection reads an empty table,
\* the file keeps its rows until a store call commits
DeleteChunk ==
    /\ db.run \in {"bulk", "same"}
    /\ db' = [db EXCEPT !.run = IF db.run = "bulk" THEN "deleted" ELSE "emptied",
                        !.intxn = TRUE, !.view = {}]
    /\ UNCHANGED <<chunk, last, put, event, codec, flt>>

\* store(db.connection, chunks), chunks = list(serialize(f)) of the last of
\* testflows, timed over and over
StoreChunks(failAt) ==
    /\ db.run \in {"deleted", "same"}
    /\ StoreOn(serialize(<<db.flow>>), failAt)
    /\ db' = [Closed(db) EXCEPT !.run = IF last'.raised # "none" THEN "ended" ELSE "same"]
    /\ UNCHANGED <<event, codec, flt>>

(***************************************************************************)
(* The codec on its own: a flow is encoded, its chunks are put in some     *)
(* order and decoded (the benchmark of dbview.py decodes them reversed).   *)
(***************************************************************************)
Orderings(n) == {p \in [1..n -> 1..n] : \A i, j \in 1..n : p[i] = p[j] => i = j}

Permuted(rows, p) == [i \in DOMAIN rows |-> rows[p[i]]]

Reversed(rows) == [i \in DOMAIN rows |-> rows[Len(rows) + 1 - i]]

InitCodec ==
    /\ chunk = {}
    /\ db = Db("script")
    /\ last = NoCall
    /\ put = <<>>
    /\ event = NoEvent
    /\ codec \in {CodecAt("flow", f, Gen(<<>>, "none"), <<>>, NotRun) : f \in Flows}
    /\ flt = NoFilter

Encode ==
    /\ codec.pc = "flow"
    /\ codec' = CodecAt("encoded", codec.flow, serialize(<<codec.flow>>), <<>>, NotRun)
    /\ UNCHANGED <<chunk, db, last, put, event, flt>>

Decode(p) ==
    /\ codec.pc = "encoded"
    /\ codec.gen.err = "none"
    /\ codec' = CodecAt("decoded", codec.flow, codec.gen, Permuted(codec.gen.rows, p),
                        deserialize(Permuted(codec.gen.rows, p)))
    /\ UNCHANGED <<chunk, db, last, put, event, flt>>

NextCodec ==
    \/ Encode
    \/ \E p \in Orderings(Len(codec.gen.rows)) : Decode(p)

SpecCodec == InitCodec /\ [][NextCodec]_vars

(***************************************************************************)
(* The filter compiler on its own: a filter text is parsed and compiled.   *)
(***************************************************************************)
MaxToks == 3

\* the filters of the demonstration in dbviewff.py
Demonstrated ==
    {<<"~marked">>,
     <<"~marker", "foo">>,
     <<"~c", "200">>,
     <<"~marked", "~c", "200">>,
     <<"~marked", "~c", "200", "|", "~c", "201">>,
     <<"!", "~marked", "~c", "200">>,
     <<"~h", "ee">>}

\* longer filters: explicit operators, parentheses, several parameters
Longer ==
    {<<"~marked", "&", "~c", "200", "|", "~c", "201">>,
     <<"~c", "201", "|", "~marked", "&", "~c", "200">>,
     <<"~c", "200", "~marker", "foo">>,
     <<"!", "(", "~c", "200", "|", "~h", "foo", ")">>,
     <<"~marker", "foo", "&", "!", "~c", "201", "~h", "200">>}

FilterTexts == SeqsUpTo(Tokens, MaxToks) \cup Demonstrated \cup Longer

\* what conn.execute can do with the parse result; it is not reached when
\* parseString raised
Outcomes(parsed, table) ==
    IF parsed.res.ok THEN execute(parsed, table) ELSE {NotRun}

\* the loop body after out: the count was printed, or execute raised, or
\* parseString had raised
Executed(text, parsed, out) ==
    IF ~parsed.res.ok THEN FilterAt("raised", text, parsed, out)
    ELSE IF out.ok THEN FilterAt("run", text, parsed, out)
    ELSE FilterAt("failed", text, parsed, out)

RunParsed(text, parsed) ==
    \E out \in Outcomes(parsed, chunk) : flt' = Executed(text, parsed, out)

\* one round of the demonstration loop: parse and compile the text, then
\* run the query unless parseString raised
RunFilter(text) ==
    /\ flt.pc = "idle"
    /\ RunParsed(text, parseString(text))
    /\ UNCHANGED <<chunk, db, last, put, event, codec>>

NextParse == \E text \in FilterTexts : RunFilter(text)

\* the demonstration of dbviewff.py, run on the dbview.db that the addon
\* has opened
InitParse == Opened("addon", Found)

SpecParse == InitParse /\ [][NextParse]_vars

(***************************************************************************)
(* Filters run against the stores that events leave behind.                *)
(***************************************************************************)
MaxEvents == 3

StoreContents == StoresAfter(MaxEvents)

QueryTexts == {t \in FilterTexts : parseString(t).res.ok}

InitQuery == Opened("addon", StoreContents)

NextQuery == \E text \in QueryTexts : RunFilter(text)

SpecQuery == InitQuery /\ [][NextQuery]_vars

(***************************************************************************)
(* One hook call followed store call by store call, on the stores that     *)
(* events leave behind, while the demonstration of dbviewff.py reads the   *)
(* committed table through a connection of its own.                        *)
(***************************************************************************)
MaxTraced == 3

TracedData ==
    {One(f) : f \in Flows} \cup {List(fs) : fs \in SeqsUpTo(BatchFlows, MaxTraced)}

InitEvent == Opened("addon", Found)

NextEvent ==
    \/ \E data \in TracedData, failAt \in FailAts :
          /\ event.pc = "idle"
          /\ HttpEvents(data, failAt)
    \/ \E failAt \in FailAts : NextFlow(failAt)
    \/ \E text \in Demonstrated : RunFilter(text)

SpecEvent == InitEvent /\ [][NextEvent]_vars

Next ==
    \/ \E data \in EventData, failAt \in FailAts : HttpEvents(data, failAt)
    \/ \E failAt \in FailAts : NextFlow(failAt)
    \/ \E flow \in TestFlows, failAt \in FailAts : BulkStore(flow, failAt)
    \/ DeleteChunk
    \/ \E failAt \in FailAts : StoreChunks(failAt)

Spec == Init /\ [][Next]_vars

(***************************************************************************)
(* Claims about the store.                                                 *)
(***************************************************************************)
RowsOf(table, mid, kind) == {r \in table : r.mid = mid /\ r.kind = kind}

\* C1: after any sequence of store calls the chunk table holds at most one row
\* per (mid, kind), and that row carries the payload of the most recent
\* committed write of that key.
C1_UpsertLatest ==
    /\ \A mid \in FlowIds, kind \in Kinds : Cardinality(RowsOf(chunk, mid, kind)) <= 1
    /\ \A r \in chunk : /\ <<r.mid, r.kind>> \in DOMAIN put
                        /\ r.data = put[<<r.mid, r.kind>>]
    /\ \A k \in DOMAIN put : RowsOf(chunk, k[1], k[2]) # {}

\* a committed store call replaced the payload of a key that was already stored
C1_Witness ==
    /\ last.raised = "none"
    /\ \E old \in last.view, new \in chunk :
          /\ old.mid = new.mid /\ old.kind = new.kind
          /\ old.data # new.data
          /\ \E i \in DOMAIN last.rows : last.rows[i] = <<new.mid, new.kind, new.data>>

\* C2: a store call that raises leaves the committed table as it was before
\* the call; a store call that returns has committed every row its generator
\* yielded and has left alone the rows of other keys that its connection saw.
C2_StoreAtomic ==
    LET keys == {<<last.rows[i][1], last.rows[i][2]>> : i \in DOMAIN last.rows}
    IN  /\ last.raised # "none" => chunk = last.pre
        /\ last.raised = "none" =>
              /\ \A i \in DOMAIN last.rows :
                    [mid |-> last.rows[i][1], kind |-> last.rows[i][2],
                     data |-> last.rows[i][3]] \in chunk
              /\ \A r \in last.view : <<r.mid, r.kind>> \notin keys => r \in chunk
              /\ \A r \in chunk : <<r.mid, r.kind>> \notin keys => r \in last.view

\* the encoder raised after it had yielded rows that would have changed the table
C2_Witness ==
    /\ last.raised = "UnicodeDecodeError"
    /\ \E i \in DOMAIN last.rows :
          [mid |-> last.rows[i][1], kind |-> last.rows[i][2],
           data |-> last.rows[i][3]] \notin last.pre
    /\ chunk = last.pre
    /\ chunk # {}

\* C8: a response_content chunk is stored for a flow only if the stored
\* http_flow chunk of that flow records a response.
C8_NoStaleResponseContent ==
    \A mid \in FlowIds :
        RowsOf(chunk, mid, "response_content") # {} =>
            \E h \in RowsOf(chunk, mid, "http_flow") : JsonLoads(h.data).response.t # "none"

\* the keys that the rows of a flow write
KeysOfFlow(flow) ==
    LET rows == serialize(<<flow>>).rows
    IN  {<<rows[i][1], rows[i][2]>> : i \in DOMAIN rows}

\* the payload that a flow writes for a key
PayloadOfFlow(flow, key) ==
    LET rows == serialize(<<flow>>).rows
        at == CHOOSE i \in DOMAIN rows :
                 /\ <<rows[i][1], rows[i][2]>> = key
                 /\ \A j \in DOMAIN rows : <<rows[j][1], rows[j][2]>> = key => j <= i
    IN  rows[at][3]

\* the flows of a list whose transactions were committed: all of them when the
\* hook returned, those before the store call that raised otherwise
CommittedOf(ev) == IF ev.raised = "none" THEN ev.stores ELSE ev.stores - 1

\* the last committed flow of the list that writes key, 0 when none does
LastWriter(ev, key) ==
    LET writers == {j \in 1..CommittedOf(ev) : key \in KeysOfFlow(ev.data.flows[j])}
    IN  IF writers = {} THEN 0
        ELSE CHOOSE j \in writers : \A i \in writers : i <= j

\* C11: a hook given a list stores flow after flow, each in a transaction of
\* its own: after every store call the committed table is the table before the
\* event with the rows of the flows stored so far committed over it; the store
\* calls stop at the first that raises, what it raised reaches the caller, and
\* the failing flow and the flows after it have written nothing.
C11_PerFlowTransactions ==
    (event.pc \in {"storing", "done"} /\ event.data.isList) =>
        LET flows == event.data.flows
            failed == event.raised # "none"
        IN  /\ event.pc = "storing" => ~failed /\ event.stores \in 1..(Len(flows) - 1)
            /\ (event.pc = "done" /\ ~failed) => event.stores = Len(flows)
            /\ failed => /\ event.stores \in 1..Len(flows)
                         /\ last.raised = event.raised
                         /\ last.rows = serialize(<<flows[event.stores]>>).rows
                         /\ chunk = last.pre
            /\ \A j \in 1..CommittedOf(event) : serialize(<<flows[j]>>).err = "none"
            /\ \A r \in chunk :
                  LET w == LastWriter(event, <<r.mid, r.kind>>)
                  IN  IF w = 0 THEN r \in event.pre
                      ELSE r.data = PayloadOfFlow(flows[w], <<r.mid, r.kind>>)
            /\ \A r \in event.pre :
                  LastWriter(event, <<r.mid, r.kind>>) = 0 => r \in chunk
            /\ \A j \in 1..CommittedOf(event) : \A key \in KeysOfFlow(flows[j]) :
                  RowsOf(chunk, key[1], key[2]) # {}

\* the second of three flows failed: the first is committed and has changed the
\* table, the second and the third, whose rows the table lacks, wrote nothing
C11_Witness ==
    /\ event.pc = "done"
    /\ event.data.isList
    /\ Len(event.data.flows) = MaxTraced
    /\ event.raised # "none"
    /\ event.stores \in 2..(MaxTraced - 1)
    /\ chunk # event.pre
    /\ \E i \in DOMAIN last.rows : ChunkRow(last.rows[i]) \notin chunk
    /\ \E key \in KeysOfFlow(event.data.flows[MaxTraced]) :
          RowsOf(chunk, key[1], key[2]) = {}

(***************************************************************************)
(* Claims about the codec.                                                 *)
(***************************************************************************)
KindAt(chunks) == [i \in DOMAIN chunks |-> chunks[i][2]]

Position(chunks, kind) == CHOOSE i \in DOMAIN chunks : chunks[i][2] = kind

\* the content chunks come after the http_flow chunk
ContentsFollowHttpFlow(chunks) ==
    \A i \in DOMAIN chunks :
        chunks[i][2] \in {"request_content", "response_content"} =>
            Position(chunks, "http_flow") < i

\* C3: deserialize applied to the chunk sequence serialize emits for an HTTP
\* flow returns the flow's state.
C3_RoundTrip ==
    (codec.pc = "decoded" /\ codec.flow.cls = "HTTPFlow" /\ codec.chunks = codec.gen.rows)
        => (codec.res.ok /\ codec.res.val.state = codec.flow.state)

\* the state of the flow as deserialize rebuilds it from the chunks in the
\* reversed order, as the benchmark decodes them: the headers and the
\* certificates back as the bytes of the flow, encoded exactly once, the
\* client_conn state as its chunk carries it
SameStateAsReversed ==
    /\ codec.res.ok
    /\ codec.res = deserialize(Reversed(codec.gen.rows))
    /\ codec.res.val.state.request.headers = codec.flow.state.request.headers
    /\ codec.res.val.state.response.t # "none" =>
          codec.res.val.state.response.headers = codec.flow.state.response.headers
    /\ codec.res.val.state.server_conn.certificate_list
          = codec.flow.state.server_conn.certificate_list
    /\ codec.res.val.state.client_conn
          = JsonLoads(codec.chunks[Position(codec.chunks, "client_conn")][3])

\* C10: for the complete chunk set of an HTTP flow, wherever the http_flow,
\* client_conn and server_conn chunks stand in the order of the chunks,
\* deserialize returns the same state, with the header and certificate bytes
\* restored exactly once.
C10_MetadataOrder ==
    (codec.pc = "decoded" /\ codec.flow.cls = "HTTPFlow") => SameStateAsReversed

\* the orderings on which deserialize does not depend: with the content chunks
\* after http_flow, the three metadata chunks in any order give the same state
MetadataOrderContentsLast ==
    (codec.pc = "decoded" /\ codec.flow.cls = "HTTPFlow"
                          /\ ContentsFollowHttpFlow(codec.chunks))
        => SameStateAsReversed

(***************************************************************************)
(* Claims about the filter grammar and the compiler.                       *)
(***************************************************************************)
ImplicitAndText == <<"~marked", "~c", "200", "|", "~c", "201">>
ExplicitAndText == <<"~marked", "&", "~c", "200", "|", "~c", "201">>

MarkedAnd200 == FAnd(<<FMarked, FCode(200)>>)
Either200Or201 == FOr(<<FCode(200), FCode(201)>>)

\* C4 as stated: "~marked ~c 200 | ~c 201" is (marked AND 200) OR 201.
C4_OrLowest ==
    (flt.pc # "idle" /\ flt.text = ImplicitAndText)
        => flt.ast = FOr(<<MarkedAnd200, FCode(201)>>)

\* C4 amended: "~marked ~c 200 | ~c 201" is marked AND (200 OR 201): the
\* implicit AND of adjacent expressions is applied last, to whole "|"
\* expressions, while "|" is below the explicit "&":
\* "~marked & ~c 200 | ~c 201" is (marked AND 200) OR 201.
C4_AdjacencyLoosest ==
    flt.pc # "idle" =>
        /\ flt.text = ImplicitAndText =>
              /\ flt.ast = FAnd(<<FMarked, Either200Or201>>)
              /\ flt.res = Compiled(<<" ( ">> \o FMarkedWhere \o <<" ) AND ( ", " ( ">>
                                    \o FCodeWhere \o <<" ) OR ( ">> \o FCodeWhere
                                    \o <<" ) ", " ) ">>,
                                    <<PyInt(200), PyInt(201)>>)
        /\ flt.text = ExplicitAndText =>
              /\ flt.ast = FOr(<<MarkedAnd200, FCode(201)>>)
              /\ flt.res = Compiled(<<" ( ", " ( ">> \o FMarkedWhere \o <<" ) AND ( ">>
                                    \o FCodeWhere \o <<" ) ", " ) OR ( ">> \o FCodeWhere
                                    \o <<" ) ">>,
                                    <<PyInt(200), PyInt(201)>>)

C4_Witness ==
    flt.pc # "idle" /\ flt.text = ImplicitAndText /\ flt.res.ok

\* the bound values of the parameterized flags of a text, left to right
RECURSIVE TextParams(_)
TextParams(toks) ==
    IF Len(toks) < 2 THEN <<>>
    ELSE IF toks[1] = "~c" THEN <<PyInt(NumOf[toks[2]])>> \o TextParams(Tail(Tail(toks)))
    ELSE IF toks[1] \in {"~h", "~marker"} THEN <<Str(RegexOf(toks[2]))>> \o TextParams(Tail(Tail(toks)))
    ELSE TextParams(Tail(toks))

\* the piece in front of every placeholder a text asks for, left to right
RECURSIVE TextOwners(_)
TextOwners(toks) ==
    IF toks = <<>> THEN <<>>
    ELSE IF toks[1] = "~c" THEN <<FCodeWhere[1]>> \o TextOwners(Tail(toks))
    ELSE IF toks[1] = "~h" THEN <<FHeadWhere[1]>> \o TextOwners(Tail(toks))
    ELSE IF toks[1] = "~marker" THEN <<FMarkerWhere[1]>> \o TextOwners(Tail(toks))
    ELSE TextOwners(Tail(toks))

\* the piece in front of every placeholder of a fragment, left to right
RECURSIVE FragmentOwners(_)
FragmentOwners(expr) ==
    IF Len(expr) < 2 THEN <<>>
    ELSE IF expr[2] = Placeholder THEN <<expr[1]>> \o FragmentOwners(Tail(expr))
    ELSE FragmentOwners(Tail(expr))

Placeholders(expr) == {i \in DOMAIN expr : expr[i] = Placeholder}

\* the bound values of the leaves of an AST, left to right
RECURSIVE LeafParams(_), LeafParamsOf(_)
LeafParamsOf(lst) ==
    IF lst = <<>> THEN <<>> ELSE LeafParams(Head(lst)) \o LeafParamsOf(Tail(lst))
LeafParams(node) ==
    CASE node.op \in {"FMarker", "FHead"} -> <<Str(node.expr)>>
      [] node.op = "FCode" -> <<PyInt(node.num)>>
      [] node.op \in {"FAnd", "FOr"} -> LeafParamsOf(node.lst)
      [] node.op = "FNot" -> LeafParams(node.itm)
      [] OTHER -> <<>>

\* C7: a compiled filter has as many placeholders as bindings, and the i-th
\* binding is the value of the i-th parameterized leaf, in the order of the
\* filter text, sitting at the placeholder of that leaf's clause; ~marked binds
\* nothing and "!" adds nothing.
C7_BindingOrder ==
    (flt.pc # "idle" /\ flt.res.ok) =>
        /\ Cardinality(Placeholders(flt.res.val.expr)) = Len(flt.res.val.bindings)
        /\ flt.res.val.bindings = TextParams(flt.text)
        /\ flt.res.val.bindings = LeafParams(flt.ast)
        /\ FragmentOwners(flt.res.val.expr) = TextOwners(flt.text)

\* three different parameters under "&", "!" and adjacency
C7_Witness ==
    /\ flt.pc # "idle"
    /\ flt.res.ok
    /\ flt.text = <<"~marker", "foo", "&", "!", "~c", "201", "~h", "200">>
    /\ flt.res.val.bindings = <<Str("foo"), PyInt(201), Str("200")>>

\* C9: whatever the parser accepts compiles: the only failure between a filter
\* text and its compiled predicate is the parser's ParseException.
C9_ParsedCompiles ==
    flt.pc # "idle" => (flt.res.ok \/ flt.res.err = "ParseException")

(***************************************************************************)
(* Claims about filters run against the store.                             *)
(***************************************************************************)
StoredIds(table) == {r.mid : r \in table}

\* the flows with a row that the compiled fragment selects
Matched(compiled, table) == {r.mid : r \in Selected(compiled, table)}

\* C5: the flows matched by Not(A) are the stored flows that A does not match.
C5_NotIsComplement ==
    (flt.pc = "run" /\ flt.ast.op = "FNot")
        => Matched(flt.res.val, chunk)
              = StoredIds(chunk) \ Matched(sql(flt.ast.itm).val, chunk)

\* C6: And(children) and Or(children) run, and the flows matched by
\* And(children) are those every child matches, the flows matched by
\* Or(children) those some child matches.
C6_AndOrAlgebra ==
    (flt.pc \in {"run", "failed"} /\ flt.ast.op \in {"FAnd", "FOr"}) =>
        /\ flt.pc = "run"
        /\ flt.ast.op = "FAnd" =>
              Matched(flt.res.val, chunk)
                 = {m \in StoredIds(chunk) :
                       \A i \in DOMAIN flt.ast.lst :
                           m \in Matched(sql(flt.ast.lst[i]).val, chunk)}
        /\ flt.ast.op = "FOr" =>
              Matched(flt.res.val, chunk)
                 = {m \in StoredIds(chunk) :
                       \E i \in DOMAIN flt.ast.lst :
                           m \in Matched(sql(flt.ast.lst[i]).val, chunk)}

====
